---- MODULE Spec2Model ----
(***************************************************************************)
(* Model of src/app.py, the Streamlit gold-rate calculator: the session    *)
(* cache (cache_set / cache_get), the HTTP helper http_get with its retry  *)
(* loop and 429 handling, the three adapters (fetch_xau_yahoo,             *)
(* fetch_usd_inr, fetch_metals_api) and the script body that displays the  *)
(* cached entry, applies the UI cooldown and runs the refresh block.       *)
(*                                                                         *)
(* Time is counted in whole seconds.  A script run is a sequence of steps: *)
(* the top of the script (display + cooldown gate) is one step, every HTTP *)
(* request, the handling of its response and every backoff sleep are steps *)
(* of their own, and so is the continuation of the refresh block after     *)
(* each adapter call.  Python None is <<>>, a present value v is <<v>>.    *)
(* Prices are rationals <<numerator, denominator>>.                        *)
(***************************************************************************)
EXTENDS Integers, Sequences, FiniteSets, TLC

VARIABLES
    now,               \* datetime.utcnow(), in seconds
    cache,             \* st.session_state.cache (a dict: a function on its keys)
    last_user_fetch,   \* st.session_state.last_user_fetch
    last_retry_after,  \* st.session_state.last_retry_after
    pc,                \* position of the script run
    run,               \* the script run's globals (settings, locals, what it did)
    h,                 \* the frame of the http_get call in progress
    lastSet            \* history: the arguments and instant of the latest cache_set call

vars == <<now, cache, last_user_fetch, last_retry_after, pc, run, h, lastSet>>

(***************************************************************************)
(* Bounds of the model and constants of the program.                       *)
(***************************************************************************)
MaxTime == 11            \* the clock is explored up to this instant between runs
MaxRefreshTime == 3      \* refreshes start up to this instant, later runs only read
MaxAttempts == 3         \* largest attempt budget http_get is explored with
AdapterAttempts == 2     \* attempts=2 in every adapter
InitialBackoff == 1      \* backoff = 1.0
BackoffFactor == 2       \* backoff *= 2
MinCacheTTL == 10        \* min_value of the Cache TTL input
MinCooldown == 1         \* min_value of the UI cooldown input

None == <<>>
Some(v) == <<v>>

TTLValues == {MinCacheTTL, 2 * MinCacheTTL}
CooldownValues == {MinCooldown, MinCooldown + 2}
KeyValues == {"", "key"}

YahooPrices == {<<2000, 1>>}
FxRates == {<<83, 1>>, <<84, 1>>}
MetalsRates == {<<0, 1>>, <<1, 1900>>}      \* XAU per USD; zero included

(***************************************************************************)
(* HTTP responses.  kind: "ok" (2xx), "r429", "httperr" (another 4xx/5xx,  *)
(* raise_for_status raises HTTPError), "transport" (timeout, connection    *)
(* error).  text429 tells whether the text of the HTTPError that           *)
(* raise_for_status builds (status, reason phrase, request URL with its    *)
(* query string) contains the characters 429.  ra is the Retry-After       *)
(* header, body the parsed JSON body.                                      *)
(***************************************************************************)
NoHeader == [present |-> FALSE, form |-> "none", tenths |-> 0]
NumHeader(t) == [present |-> TRUE, form |-> "number", tenths |-> t]
TextHeader == [present |-> TRUE, form |-> "text", tenths |-> 0]
InfHeader == [present |-> TRUE, form |-> "inf", tenths |-> 0]

\* "0", "3", "2.5", "abc", "inf" and no header at all
RetryAfterHeaders == {NoHeader, NumHeader(0), NumHeader(30), NumHeader(25), TextHeader, InfHeader}

\* the headers explored for source src: all of them when http_get is explored
\* alone, "2" and no header inside a script run
HeadersOf(src) == IF src = "any" THEN RetryAfterHeaders ELSE {NoHeader, NumHeader(20)}

NoBody == [shape |-> "none", val |-> <<0, 1>>]
GoodBody(v) == [shape |-> "good", val |-> v]
Malformed == [shape |-> "malformed", val |-> <<0, 1>>]
NoXau == [shape |-> "noxau", val |-> <<0, 1>>]

Bodies(src) ==
    CASE src = "yahoo" -> {GoodBody(v) : v \in YahooPrices} \cup {Malformed}
      [] src = "fx" -> {GoodBody(v) : v \in FxRates} \cup {Malformed}
      [] src = "metals" -> {GoodBody(v) : v \in MetalsRates} \cup {Malformed, NoXau}
      [] OTHER -> {GoodBody(<<1, 1>>)}

NoResp == [kind |-> "none", ra |-> NoHeader, text429 |-> FALSE, body |-> NoBody]

Responses(src) ==
    {[kind |-> "ok", ra |-> NoHeader, text429 |-> FALSE, body |-> b] : b \in Bodies(src)}
    \cup {[kind |-> "r429", ra |-> x, text429 |-> TRUE, body |-> NoBody] : x \in HeadersOf(src)}
    \cup {[kind |-> "httperr", ra |-> NoHeader, text429 |-> t, body |-> NoBody] : t \in BOOLEAN}
    \cup {[kind |-> "transport", ra |-> NoHeader, text429 |-> FALSE, body |-> NoBody]}

(***************************************************************************)
(* http_get: pure parts.                                                   *)
(***************************************************************************)
\* int(x) of a decimal number given in tenths: truncation toward zero
IntOfTenths(t) == IF t >= 0 THEN t \div 10 ELSE -((-t) \div 10)

\* lines 72-78: last_retry_after after a 429 response with header ra
ParseRetryAfter(ra) ==
    IF ~ra.present THEN None
    ELSE IF ra.form = "number" THEN Some(IntOfTenths(ra.tenths))
    ELSE None                   \* float() or int() raised: parse error ignored

\* line 83: "429" in str(he)
IsRateLimitErrorNever(resp) == FALSE
IsRateLimitError(resp) ==
    \/ resp.kind = "r429"
    \/ resp.kind = "httperr" /\ resp.text429

\* line 85: last_retry_after or int(backoff)
RetryHintNoFallback(lra, backoff) == lra
RetryHint(lra, backoff) ==
    IF lra = None \/ lra = Some(0) THEN Some(backoff) ELSE lra

\* lines 86 and 89: attempt == attempts
IsLastAttemptOffByOne(attempt, attempts) == attempt + 1 = attempts
IsLastAttemptLate(attempt, attempts) == attempt = attempts + 1
IsLastAttempt(attempt, attempts) == attempt = attempts

NoRet == [kind |-> "none", body |-> NoBody, hint |-> None]

NoFrame ==
    [st |-> "none", src |-> "any", attempts |-> 0, attempt |-> 0, backoff |-> 0,
     lra |-> None, resp |-> NoResp, ret |-> NoRet,
     reqs |-> 0,      \* requests issued by this call
     fails |-> 0,     \* of these, how many ended in a transport failure or a non-429 HTTP error
     sleeps |-> 0,    \* backoff sleeps of this call
     slept |-> 0]     \* their total duration

\* lines 64-67: entry of http_get(url, attempts=n), at the top of the first iteration
NewFrame(src, n) ==
    [NoFrame EXCEPT !.st = IF n >= 1 THEN "request" ELSE "raised",
                    !.src = src, !.attempts = n, !.attempt = 1,
                    !.backoff = InitialBackoff]

HttpEnded == h.st \in {"returned", "raised"}

\* the globals of a script run before its first line, and what the run has done so far
BlankRun ==
    [refresh |-> FALSE,      \* st.button(...)
     ttl |-> 0,              \* cache_ttl_seconds
     cooldown |-> 0,         \* ui_cooldown
     key |-> "",             \* metals_api_key
     at |-> 0,               \* the instant of the top of the script
     cached |-> None,        \* cached = cache_get()
     fault |-> FALSE,        \* the display of the cached entry raised
     allowed |-> FALSE,
     xau_usd |-> None, src_xau |-> "", src |-> "",
     calls |-> <<>>,         \* the adapters called by this run, in order
     results |-> <<>>,       \* how each of these calls ended, and the value it returned
     reqs |-> 0,             \* HTTP requests issued by this run
     sleeps |-> 0,           \* backoff sleeps of this run
     outcome |-> "none"]     \* how the run ended

(***************************************************************************)
(* http_get: steps.                                                        *)
(***************************************************************************)
\* line 69: requests.get(...); the upstream answers with any response
HttpRequest ==
    /\ h.st = "request"
    /\ \E resp \in Responses(h.src) :
          h' = [h EXCEPT !.st = "handle", !.resp = resp, !.reqs = @ + 1,
                         !.fails = IF resp.kind \in {"transport", "httperr"} THEN @ + 1 ELSE @]
    /\ run' = [run EXCEPT !.reqs = @ + 1]
    /\ UNCHANGED <<now, cache, last_user_fetch, last_retry_after, pc, lastSet>>

\* lines 70-90: what the loop body does with the response just received
HttpHandle ==
    /\ h.st = "handle"
    /\ LET lra == IF h.resp.kind = "r429" THEN ParseRetryAfter(h.resp.ra) ELSE h.lra
       IN  h' =
             IF h.resp.kind = "ok"
             THEN [h EXCEPT !.st = "returned",
                            !.ret = [kind |-> "resp", body |-> h.resp.body, hint |-> None]]
             ELSE IF h.resp.kind \in {"r429", "httperr"} /\ IsRateLimitError(h.resp)
             THEN [h EXCEPT !.st = "returned", !.lra = lra,
                            !.ret = [kind |-> "ratelimited", body |-> NoBody,
                                     hint |-> RetryHint(lra, h.backoff)]]
             ELSE IF IsLastAttempt(h.attempt, h.attempts)
             THEN [h EXCEPT !.st = "raised", !.lra = lra,
                            !.ret = [kind |-> "raise", body |-> NoBody, hint |-> None]]
             ELSE [h EXCEPT !.st = "sleep", !.lra = lra]
    /\ UNCHANGED <<now, cache, last_user_fetch, last_retry_after, pc, run, lastSet>>

\* lines 91-92 and the loop header: sleep, double the backoff, next attempt
HttpSleep ==
    /\ h.st = "sleep"
    /\ now' = now + h.backoff
    /\ h' = [h EXCEPT !.st = IF h.attempt + 1 <= h.attempts THEN "request" ELSE "raised",
                      !.attempt = @ + 1,
                      !.backoff = @ * BackoffFactor,
                      !.sleeps = @ + 1,
                      !.slept = @ + h.backoff]
    /\ run' = [run EXCEPT !.sleeps = @ + 1]
    /\ UNCHANGED <<cache, last_user_fetch, last_retry_after, pc, lastSet>>

HttpNext == HttpRequest \/ HttpHandle \/ HttpSleep

(***************************************************************************)
(* http_get alone, called with every attempt budget 1..MaxAttempts.        *)
(***************************************************************************)
InitHttp ==
    /\ now = 0
    /\ cache = [k \in {} |-> 0]
    /\ last_user_fetch = None
    /\ last_retry_after = None
    /\ pc = "http_get"
    /\ run = BlankRun
    /\ lastSet = None
    /\ \E n \in 1..MaxAttempts : h = NewFrame("any", n)

SpecHttp == InitHttp /\ [][HttpNext]_vars

(***************************************************************************)
(* Session cache.                                                          *)
(***************************************************************************)
EmptyCache == [k \in {} |-> 0]

\* cache_set(...) storing the gold price without the FX rate
CacheSetNoFx(xau_usd, usd_inr, source_xau, source_fx, t) ==
    [xau_usd |-> xau_usd, usd_inr |-> None, fetched_at |-> t,
     source_xau |-> source_xau, source_fx |-> source_fx]

\* lines 33-41: cache_set(...) at instant t
CacheSet(xau_usd, usd_inr, source_xau, source_fx, t) ==
    [xau_usd |-> xau_usd, usd_inr |-> usd_inr, fetched_at |-> t,
     source_xau |-> source_xau, source_fx |-> source_fx]

\* line 48: age > cache_ttl_seconds
CacheExpiredAtBoundary(age, ttl) == age >= ttl
CacheExpired(age, ttl) == age > ttl

\* cache_get() without the expiry test of lines 47-49
CacheGetNoExpiry(c, t, ttl) ==
    IF DOMAIN c = {} \/ "fetched_at" \notin DOMAIN c THEN None ELSE Some(c)

\* lines 43-50: cache_get() at instant t with the TTL setting of the run
CacheGet(c, t, ttl) ==
    IF DOMAIN c = {} \/ "fetched_at" \notin DOMAIN c THEN None
    ELSE IF CacheExpired(t - c.fetched_at, ttl) THEN None
    ELSE Some(c)

\* lines 157-161 with the window one second short
CooldownAllowedEarly(luf, t, cooldown) ==
    IF luf = None THEN TRUE ELSE (t - luf[1]) >= cooldown - 1

\* lines 157-161: allowed
CooldownAllowed(luf, t, cooldown) ==
    IF luf = None THEN TRUE ELSE (t - luf[1]) >= cooldown

(***************************************************************************)
(* Adapters: what each returns once its http_get call has ended in frame f.*)
(* exc: the adapter raised; otherwise (val, src, retry_after) is returned. *)
(***************************************************************************)
Raised == [exc |-> TRUE, val |-> None, src |-> "", retry_after |-> None, parse |-> FALSE]
\* resp.json(), the subscripts or float() raised on the body of a 2xx response
RaisedInParse == [Raised EXCEPT !.parse = TRUE]
Returned(val, src, ra) ==
    [exc |-> FALSE, val |-> val, src |-> src, retry_after |-> ra, parse |-> FALSE]

\* lines 96-105
FetchXauYahoo(f) ==
    IF f.st = "raised" THEN Raised
    ELSE IF f.ret.kind = "ratelimited" THEN Returned(None, "", f.ret.hint)
    ELSE IF f.ret.body.shape # "good" THEN RaisedInParse
    ELSE Returned(Some(f.ret.body.val), "Yahoo Finance", None)

\* lines 107-115
FetchUsdInr(f) ==
    IF f.st = "raised" THEN Raised
    ELSE IF f.ret.kind = "ratelimited" THEN Returned(None, "", f.ret.hint)
    ELSE IF f.ret.body.shape # "good" THEN RaisedInParse
    ELSE Returned(Some(f.ret.body.val), "exchangerate.host", None)

\* line 127: 1.0 / float(r) if float(r) != 0 else None
InvertRate(r) == IF r[1] # 0 THEN Some(<<r[2], r[1]>>) ELSE None

\* lines 117-129
FetchMetalsApi(f) ==
    IF f.st = "raised" THEN Raised
    ELSE IF f.ret.kind = "ratelimited" THEN Returned(None, "", f.ret.hint)
    ELSE IF f.ret.body.shape # "good" THEN RaisedInParse   \* no "XAU" rate, or not the JSON expected
    ELSE Returned(InvertRate(f.ret.body.val), "Metals-API", None)

(***************************************************************************)
(* The script.                                                             *)
(***************************************************************************)
\* lines 133-152: the cached entry is displayed; xau_usd / GRAMS_PER_TROY_OUNCE
\* and usd_per_10g * usd_inr raise TypeError on a value that is None
DisplayFaults(cached) ==
    cached # None /\ (cached[1].xau_usd = None \/ cached[1].usd_inr = None)

\* the top of the script with the smallest TTL used whatever the setting
TopOfScriptFixedTTL(refresh, ttl, cooldown, key) ==
    [BlankRun EXCEPT !.refresh = refresh, !.ttl = ttl, !.cooldown = cooldown, !.key = key,
                     !.at = now,
                     !.cached = CacheGet(cache, now, MinCacheTTL),
                     !.fault = DisplayFaults(CacheGet(cache, now, MinCacheTTL)),
                     !.allowed = CooldownAllowed(last_user_fetch, now, cooldown)]

\* lines 14-22 and 132-163: the settings are read, the cached entry is
\* looked up for display and the cooldown gate is evaluated
TopOfScript(refresh, ttl, cooldown, key) ==
    [BlankRun EXCEPT !.refresh = refresh, !.ttl = ttl, !.cooldown = cooldown, !.key = key,
                     !.at = now,
                     !.cached = CacheGet(cache, now, ttl),
                     !.fault = DisplayFaults(CacheGet(cache, now, ttl)),
                     !.allowed = CooldownAllowed(last_user_fetch, now, cooldown)]

\* how an adapter call that returned r is recorded in run.results
ResultOf(r) ==
    [kind |-> IF r.exc THEN "failed"
              ELSE IF r.val # None THEN "ok"
              ELSE IF r.retry_after # None THEN "ratelimited"
              ELSE "novalue",
     val |-> r.val, src |-> r.src,
     parse |-> r.parse]      \* the call raised on the body of a 2xx response

\* time passes between two script runs
Tick ==
    /\ pc = "idle"
    /\ now < MaxTime
    /\ now' = now + 1
    /\ UNCHANGED <<cache, last_user_fetch, last_retry_after, pc, run, h, lastSet>>

\* a script run without Refresh that fetches by itself when nothing is cached
ScriptRunNoRefreshAutoFetch ==
    /\ pc = "idle"
    /\ \E ttl \in TTLValues, cooldown \in CooldownValues, key \in KeyValues :
          LET top == TopOfScript(FALSE, ttl, cooldown, key)
          IN  IF top.cached = None /\ now <= MaxRefreshTime
              THEN /\ run' = [top EXCEPT !.calls = <<"yahoo">>]
                   /\ pc' = "fetch_xau"
                   /\ h' = NewFrame("yahoo", AdapterAttempts)
              ELSE /\ run' = [top EXCEPT !.outcome = "no_refresh"]
                   /\ pc' = "done"
                   /\ h' = h
    /\ UNCHANGED <<now, cache, last_user_fetch, last_retry_after, lastSet>>

\* a script run in which Refresh was not pressed: line 166 is false
ScriptRunNoRefresh ==
    /\ pc = "idle"
    /\ \E ttl \in TTLValues, cooldown \in CooldownValues, key \in KeyValues :
          LET top == TopOfScript(FALSE, ttl, cooldown, key)
          IN  run' = [top EXCEPT !.outcome = IF top.fault THEN "display_fault" ELSE "no_refresh"]
    /\ pc' = "done"
    /\ UNCHANGED <<now, cache, last_user_fetch, last_retry_after, h, lastSet>>

\* Refresh pressed during the cooldown: lines 167-168 (or the script has
\* stopped in the display, before the refresh block)
ScriptRunRejected ==
    /\ pc = "idle"
    /\ \E ttl \in TTLValues, cooldown \in CooldownValues, key \in KeyValues :
          LET top == TopOfScript(TRUE, ttl, cooldown, key)
          IN  /\ ~top.allowed \/ top.fault
              /\ run' = [top EXCEPT !.outcome = IF top.fault THEN "display_fault" ELSE "cooldown"]
    /\ pc' = "done"
    /\ UNCHANGED <<now, cache, last_user_fetch, last_retry_after, h, lastSet>>

\* Refresh pressed and allowed: lines 170-174, up to the call of fetch_xau_yahoo
ScriptRunRefresh ==
    /\ pc = "idle"
    /\ now <= MaxRefreshTime       \* bound of the model: no refresh starts later
    /\ \E ttl \in TTLValues, cooldown \in CooldownValues, key \in KeyValues :
          LET top == TopOfScript(TRUE, ttl, cooldown, key)
          IN  /\ top.allowed /\ ~top.fault
              /\ run' = [top EXCEPT !.calls = <<"yahoo">>]
    /\ last_user_fetch' = Some(now)
    /\ pc' = "fetch_xau"
    /\ h' = NewFrame("yahoo", AdapterAttempts)
    /\ UNCHANGED <<now, cache, last_retry_after, lastSet>>

\* the run, its globals now being r, ends with message m
EndRun(r, m) ==
    /\ run' = [r EXCEPT !.outcome = m]
    /\ pc' = "done"
    /\ h' = NoFrame

\* lines 193-216: the except branch of the primary try block, the run's
\* globals being r when the exception is caught
ExceptPrimaryNoFallback(r) == EndRun(r, "primary_failed")
ExceptPrimary(r) ==
    IF r.key # ""
    THEN /\ run' = [r EXCEPT !.calls = Append(@, "metals")]
         /\ pc' = "fallback_xau"
         /\ h' = NewFrame("metals", AdapterAttempts)
    ELSE EndRun(r, "primary_failed_no_key")

\* lines 33-41 as called at lines 190 and 210: the session cache and, being
\* the same dict, the global cached if cache_get had returned it
DoCacheSet(r, xau_usd, usd_inr, source_xau, source_fx, m) ==
    LET c == CacheSet(xau_usd, usd_inr, source_xau, source_fx, now)
    IN  /\ cache' = c
        /\ lastSet' = Some([xau_usd |-> xau_usd, usd_inr |-> usd_inr,
                            source_xau |-> source_xau, source_fx |-> source_fx, at |-> now,
                            ttl |-> r.ttl])     \* the TTL setting in force at the write
        /\ run' = [r EXCEPT !.outcome = m,
                            !.cached = IF @ # None THEN Some(c) ELSE None]
        /\ pc' = "rerun"
        /\ h' = NoFrame

\* lines 174-182: fetch_xau_yahoo() has ended
PrimaryXauDone ==
    /\ pc = "fetch_xau"
    /\ HttpEnded
    /\ LET r == FetchXauYahoo(h)
           rn == [run EXCEPT !.results = Append(@, ResultOf(r))]
       IN  IF r.exc
           THEN ExceptPrimary(rn) /\ UNCHANGED last_retry_after
           ELSE IF r.val = None
           THEN /\ last_retry_after' = r.retry_after
                /\ EndRun(rn, "primary_429")
           ELSE /\ run' = [rn EXCEPT !.xau_usd = r.val, !.src_xau = r.src,
                                     !.calls = Append(@, "fx")]
                /\ pc' = "fetch_fx"
                /\ h' = NewFrame("fx", AdapterAttempts)
                /\ UNCHANGED last_retry_after
    /\ UNCHANGED <<now, cache, last_user_fetch, lastSet>>

\* lines 182-192 with the gold price cached although the FX fetch was rate-limited
PrimaryFxDoneCachesPartial ==
    /\ pc = "fetch_fx"
    /\ HttpEnded
    /\ LET r == FetchUsdInr(h)
           rn == [run EXCEPT !.results = Append(@, ResultOf(r))]
       IN  IF r.exc
           THEN ExceptPrimary(rn) /\ UNCHANGED <<last_retry_after, cache, lastSet>>
           ELSE IF r.val = None
           THEN /\ last_retry_after' = r.retry_after
                /\ DoCacheSet(rn, rn.xau_usd, Some(<<83, 1>>), rn.src_xau, "exchangerate.host",
                              "primary_fx_429")
           ELSE /\ DoCacheSet(rn, rn.xau_usd, r.val, rn.src_xau, r.src, "primary_cached")
                /\ UNCHANGED last_retry_after
    /\ UNCHANGED <<now, last_user_fetch>>

\* lines 182-192: fetch_usd_inr() of the primary path has ended
PrimaryFxDone ==
    /\ pc = "fetch_fx"
    /\ HttpEnded
    /\ LET r == FetchUsdInr(h)
           rn == [run EXCEPT !.results = Append(@, ResultOf(r))]
       IN  IF r.exc
           THEN ExceptPrimary(rn) /\ UNCHANGED <<last_retry_after, cache, lastSet>>
           ELSE IF r.val = None
           THEN /\ last_retry_after' = r.retry_after
                /\ EndRun(rn, "primary_fx_429")
                /\ UNCHANGED <<cache, lastSet>>
           ELSE /\ DoCacheSet(rn, rn.xau_usd, r.val, rn.src_xau, r.src, "primary_cached")
                /\ UNCHANGED last_retry_after
    /\ UNCHANGED <<now, last_user_fetch>>

\* lines 199-205 without the test met[0] is None of line 200
FallbackXauDoneNoNoneCheck ==
    /\ pc = "fallback_xau"
    /\ HttpEnded
    /\ LET met == FetchMetalsApi(h)
           rn == [run EXCEPT !.results = Append(@, ResultOf(met))]
       IN  IF met.exc
           THEN EndRun(rn, "fallback_failed")
           ELSE /\ run' = [rn EXCEPT !.xau_usd = met.val, !.src = met.src,
                                     !.calls = Append(@, "fx")]
                /\ pc' = "fallback_fx"
                /\ h' = NewFrame("fx", AdapterAttempts)
    /\ UNCHANGED <<now, cache, last_user_fetch, last_retry_after, lastSet>>

\* lines 199-205: fetch_metals_api(key) has ended
FallbackXauDone ==
    /\ pc = "fallback_xau"
    /\ HttpEnded
    /\ LET met == FetchMetalsApi(h)
           rn == [run EXCEPT !.results = Append(@, ResultOf(met))]
       IN  IF met.exc
           THEN EndRun(rn, "fallback_failed")
           ELSE IF met.val = None
           THEN EndRun(rn, "fallback_429")
           ELSE /\ run' = [rn EXCEPT !.xau_usd = met.val, !.src = met.src,
                                     !.calls = Append(@, "fx")]
                /\ pc' = "fallback_fx"
                /\ h' = NewFrame("fx", AdapterAttempts)
    /\ UNCHANGED <<now, cache, last_user_fetch, last_retry_after, lastSet>>

\* lines 205-214 with the primary's source variable src_xau cached instead of src
FallbackFxDoneStaleSource ==
    /\ pc = "fallback_fx"
    /\ HttpEnded
    /\ LET r == FetchUsdInr(h)
           rn == [run EXCEPT !.results = Append(@, ResultOf(r))]
       IN  IF r.exc
           THEN EndRun(rn, "fallback_failed") /\ UNCHANGED <<cache, lastSet>>
           ELSE IF r.val = None
           THEN EndRun(rn, "fallback_fx_failed") /\ UNCHANGED <<cache, lastSet>>
           ELSE DoCacheSet(rn, rn.xau_usd, r.val, rn.src_xau, r.src, "fallback_cached")
    /\ UNCHANGED <<now, last_user_fetch, last_retry_after>>

\* lines 205-214: fetch_usd_inr() of the fallback path has ended
FallbackFxDone ==
    /\ pc = "fallback_fx"
    /\ HttpEnded
    /\ LET r == FetchUsdInr(h)
           rn == [run EXCEPT !.results = Append(@, ResultOf(r))]
       IN  IF r.exc
           THEN EndRun(rn, "fallback_failed") /\ UNCHANGED <<cache, lastSet>>
           ELSE IF r.val = None
           THEN EndRun(rn, "fallback_fx_failed") /\ UNCHANGED <<cache, lastSet>>
           ELSE DoCacheSet(rn, rn.xau_usd, r.val, rn.src, r.src, "fallback_cached")
    /\ UNCHANGED <<now, last_user_fetch, last_retry_after>>

\* st.experimental_rerun() at lines 192 and 212: the script is run again at
\* once, with the same settings and Refresh not pressed
Rerun ==
    /\ pc = "rerun"
    /\ LET top == TopOfScript(FALSE, run.ttl, run.cooldown, run.key)
       IN  run' = [top EXCEPT !.outcome = IF top.fault THEN "display_fault" ELSE "no_refresh"]
    /\ pc' = "done"
    /\ UNCHANGED <<now, cache, last_user_fetch, last_retry_after, h, lastSet>>

\* the script has reached its last line; the session waits for the next event
Finish ==
    /\ pc = "done"
    /\ pc' = "idle"
    /\ run' = BlankRun
    /\ h' = NoFrame
    /\ UNCHANGED <<now, cache, last_user_fetch, last_retry_after, lastSet>>

\* lines 25-30: session defaults
Init ==
    /\ now = 0
    /\ cache = EmptyCache
    /\ last_user_fetch = None
    /\ last_retry_after = None
    /\ pc = "idle"
    /\ run = BlankRun
    /\ h = NoFrame
    /\ lastSet = None

Next ==
    \/ Tick
    \/ ScriptRunNoRefresh
    \/ ScriptRunRejected
    \/ ScriptRunRefresh
    \/ HttpRequest
    \/ HttpHandle
    \/ HttpSleep
    \/ PrimaryXauDone
    \/ PrimaryFxDone
    \/ FallbackXauDone
    \/ FallbackFxDone
    \/ Rerun
    \/ Finish

Spec == Init /\ [][Next]_vars

(***************************************************************************)
(* The displayed rates (lines 140-152), computed exactly.  Python floats   *)
(* are taken as the rationals they approximate; a rational is a pair       *)
(* <<numerator, denominator>> of naturals, and a natural is the sequence   *)
(* of its limbs of four decimal digits, lowest first (zero is <<>>).       *)
(***************************************************************************)
Limb == 10 ^ 4

RECURSIVE BigOf(_)
BigOf(n) == IF n = 0 THEN <<>> ELSE <<n % Limb>> \o BigOf(n \div Limb)

RECURSIVE BigAddC(_, _, _)
BigAddC(a, b, c) ==
    IF a = <<>> /\ b = <<>> THEN BigOf(c)
    ELSE LET x == (IF a = <<>> THEN 0 ELSE Head(a)) + (IF b = <<>> THEN 0 ELSE Head(b)) + c
         IN  <<x % Limb>> \o BigAddC(IF a = <<>> THEN <<>> ELSE Tail(a),
                                     IF b = <<>> THEN <<>> ELSE Tail(b), x \div Limb)

BigAdd(a, b) == BigAddC(a, b, 0)

RECURSIVE BigMulLimbC(_, _, _)
BigMulLimbC(a, m, c) ==
    IF a = <<>> THEN BigOf(c)
    ELSE LET x == Head(a) * m + c
         IN  <<x % Limb>> \o BigMulLimbC(Tail(a), m, x \div Limb)

\* a * m for one limb m
BigMulLimb(a, m) == IF m = 0 THEN <<>> ELSE BigMulLimbC(a, m, 0)

BigShift(a) == IF a = <<>> THEN <<>> ELSE <<0>> \o a

RECURSIVE BigMul(_, _)
BigMul(a, b) ==
    IF a = <<>> \/ b = <<>> THEN <<>>
    ELSE BigAdd(BigMulLimb(a, Head(b)), BigShift(BigMul(a, Tail(b))))

RECURSIVE BigLeq(_, _)
BigLeq(a, b) ==
    IF Len(a) # Len(b) THEN Len(a) < Len(b)
    ELSE IF a = <<>> THEN TRUE
    ELSE IF a[Len(a)] # b[Len(b)] THEN a[Len(a)] < b[Len(b)]
    ELSE BigLeq(SubSeq(a, 1, Len(a) - 1), SubSeq(b, 1, Len(b) - 1))

RatOf(q) == <<BigOf(q[1]), BigOf(q[2])>>
RatAdd(x, y) == <<BigAdd(BigMul(x[1], y[2]), BigMul(y[1], x[2])), BigMul(x[2], y[2])>>
RatMul(x, y) == <<BigMul(x[1], y[1]), BigMul(x[2], y[2])>>
RatDiv(x, y) == <<BigMul(x[1], y[2]), BigMul(x[2], y[1])>>
RatEq(x, y) == BigMul(x[1], y[2]) = BigMul(y[1], x[2])
RatLeq(x, y) == BigLeq(BigMul(x[1], y[2]), BigMul(y[1], x[2]))

\* line 7
GRAMS_PER_TROY_OUNCE == RatOf(<<311034768, 10000000>>)

\* line 147: [("24K", 1.0), ("22K", 22/24), ("18K", 18/24)]
Purities ==
    <<[purity |-> "24K", factor |-> RatOf(<<1, 1>>)],
      [purity |-> "22K", factor |-> RatDiv(RatOf(<<22, 1>>), RatOf(<<24, 1>>))],
      [purity |-> "18K", factor |-> RatDiv(RatOf(<<18, 1>>), RatOf(<<24, 1>>))]>>

\* lines 140-144: inr_per_10g of the cached entry
InrPer10g(cached) ==
    LET xau_usd == RatOf(cached.xau_usd[1])
        usd_inr == RatOf(cached.usd_inr[1])
        usd_per_gram == RatDiv(xau_usd, GRAMS_PER_TROY_OUNCE)
        usd_per_10g == RatMul(usd_per_gram, RatOf(<<10, 1>>))
    IN  RatMul(usd_per_10g, usd_inr)

\* the body of the loop with GST applied before the import duty
ShowRatesRowGstFirst(inr_10g, factor, import_duty_pct, gst_pct) ==
    LET base == RatMul(inr_10g, factor)
        with_gst == RatMul(base, RatAdd(RatOf(<<1, 1>>), RatDiv(gst_pct, RatOf(<<100, 1>>))))
        with_both == RatMul(with_gst,
                            RatAdd(RatOf(<<1, 1>>), RatDiv(import_duty_pct, RatOf(<<100, 1>>))))
    IN  [base |-> base, after_imp |-> with_gst, after_gst |-> with_both]

\* lines 148-150: one iteration of the loop of show_rates, before rounding
ShowRatesRow(inr_10g, factor, import_duty_pct, gst_pct) ==
    LET base == RatMul(inr_10g, factor)
        after_imp == RatMul(base, RatAdd(RatOf(<<1, 1>>),
                                         RatDiv(import_duty_pct, RatOf(<<100, 1>>))))
        after_gst == RatMul(after_imp, RatAdd(RatOf(<<1, 1>>),
                                              RatDiv(gst_pct, RatOf(<<100, 1>>))))
    IN  [base |-> base, after_imp |-> after_imp, after_gst |-> after_gst]

\* the cached pairs and the percentages the rates are computed for
RatePrices == {<<2000, 1>>, <<1900, 1>>, <<399995, 200>>}
RateFx == {<<83, 1>>, <<8412, 100>>}
DutyPcts == {<<0, 1>>, <<10, 1>>, <<1075, 100>>}      \* 10.75 is the default of line 14
GstPcts == {<<0, 1>>, <<3, 1>>}                       \* 3.0 is the default of line 15

\* a script run whose cache_get() returned an entry, at line 133
InitRates ==
    /\ now = 0
    /\ \E x \in RatePrices, f \in RateFx :
          cache = CacheSet(Some(x), Some(f), "Yahoo Finance", "exchangerate.host", 0)
    /\ last_user_fetch = Some(0)
    /\ last_retry_after = None
    /\ pc = "display"
    /\ \E duty \in DutyPcts, gst \in GstPcts :
          run = [import_duty_pct |-> duty, gst_pct |-> gst, inr_per_10g |-> None, rows |-> <<>>]
    /\ h = NoFrame
    /\ lastSet = None

\* lines 140-144
DisplayCached ==
    /\ pc = "display"
    /\ run' = [run EXCEPT !.inr_per_10g = Some(InrPer10g(cache))]
    /\ pc' = "show_rates"
    /\ UNCHANGED <<now, cache, last_user_fetch, last_retry_after, h, lastSet>>

\* lines 147-151: the next iteration of the loop of show_rates(inr_per_10g)
ShowRatesStep ==
    /\ pc = "show_rates"
    /\ LET i == Len(run.rows) + 1
           row == ShowRatesRow(run.inr_per_10g[1], Purities[i].factor,
                               RatOf(run.import_duty_pct), RatOf(run.gst_pct))
       IN  /\ run' = [run EXCEPT !.rows = Append(@, row)]
           /\ pc' = IF i = Len(Purities) THEN "shown" ELSE "show_rates"
    /\ UNCHANGED <<now, cache, last_user_fetch, last_retry_after, h, lastSet>>

NextRates == DisplayCached \/ ShowRatesStep

SpecRates == InitRates /\ [][NextRates]_vars

(***************************************************************************)
(* Properties.                                                             *)
(***************************************************************************)
Range(f) == {f[i] : i \in DOMAIN f}

\* a script run has executed the top of the script
InRun == run.ttl # 0
\* the script run has ended (at its last line, or in st.experimental_rerun)
RunEnded == pc \in {"done", "rerun"}
\* the run is a refresh that passed the cooldown gate
AllowedRefresh == run.refresh /\ run.allowed
\* the Retry-After header is an integer number of seconds
IsIntegerHeader(ra) == ra.present /\ ra.form = "number" /\ ra.tenths % 10 = 0

\* C1: when every request of http_get(attempts = n) ends in a transport
\* failure or a non-429 HTTP error, the call issues exactly n requests and
\* then ends with a failure (it raises), never with a rate-limit outcome.
C1_AllFailuresUseWholeBudget ==
    (HttpEnded /\ h.fails = h.reqs) =>
        (h.st = "raised" /\ h.ret.kind = "raise" /\ h.reqs = h.attempts)

\* C2: the step that handles a 429 response returns the rate-limited
\* outcome at once, with no further request and no sleep, on whatever
\* attempt it comes; once returned the call takes no further step.
C2_RateLimitedAtOnce ==
    [][ /\ (h.st = "handle" /\ h.resp.kind = "r429") =>
              /\ h'.st = "returned"
              /\ h'.ret.kind = "ratelimited"
              /\ h'.reqs = h.reqs /\ h'.reqs <= h.attempts
              /\ h'.sleeps = h.sleeps
              /\ now' = now
        /\ (h.st = "returned" /\ h.resp.kind = "r429") => (h' = h /\ now' = now)
      ]_vars

\* a 429 on a later attempt has been returned as rate-limited
C2_Witness ==
    /\ h.st = "returned" /\ h.resp.kind = "r429" /\ h.ret.kind = "ratelimited"
    /\ h.reqs = 2 /\ h.attempts = 3 /\ h.sleeps = 1

\* C3 as stated: on 429 the hint is the header's integer value when the
\* header is an integer, and absent when the header is missing or not an integer.
C3_HintFromHeaderOnly ==
    (h.st = "returned" /\ h.resp.kind = "r429") =>
        IF IsIntegerHeader(h.resp.ra)
        THEN h.ret.hint = Some(h.resp.ra.tenths \div 10)
        ELSE h.ret.hint = None

\* C3 amended: on 429 the hint is the header's number truncated toward zero
\* when the header is a finite number and that integer is not zero; in every
\* other case (no header, not a number, zero) it is the integer part of the
\* current backoff, 2^(attempt - 1), and is never absent.
C3_HintOrBackoff ==
    (h.st = "returned" /\ h.resp.kind = "r429") =>
        LET ra == h.resp.ra
            whole == IF ra.tenths >= 0 THEN (ra.tenths - (ra.tenths % 10)) \div 10
                     ELSE -(((-ra.tenths) - ((-ra.tenths) % 10)) \div 10)
        IN  IF ra.present /\ ra.form = "number" /\ whole # 0
            THEN h.ret.hint = Some(whole)
            ELSE h.ret.hint = Some(2 ^ (h.reqs - 1))

\* a 429 without Retry-After on the second attempt gives the hint 2
C3_Witness ==
    /\ h.st = "returned" /\ h.resp.kind = "r429" /\ ~h.resp.ra.present
    /\ h.reqs = 2 /\ h.ret.hint = Some(2)

\* C4 as stated: in an allowed refresh with a fallback key, a primary gold
\* source that ends rate-limited or failed is followed by a call of Metals-API.
C4_FallbackAfterRateLimitOrFailure ==
    (RunEnded /\ AllowedRefresh /\ run.key # "" /\ Len(run.results) >= 1
       /\ run.results[1].kind \in {"ratelimited", "failed"})
    => "metals" \in Range(run.calls)

\* C4 amended: in an allowed refresh with a fallback key, a primary gold
\* source that ends failed (it raised) is followed by a call of Metals-API in
\* the same refresh; one that ends rate-limited ends the refresh with the
\* 429 message and no other adapter is called.
C4_FallbackAfterFailureOnly ==
    (RunEnded /\ AllowedRefresh /\ run.key # "" /\ Len(run.results) >= 1) =>
        /\ run.results[1].kind = "failed" =>
              (Len(run.calls) >= 2 /\ run.calls[2] = "metals")
        /\ run.results[1].kind = "ratelimited" =>
              (run.calls = <<"yahoo">> /\ run.outcome = "primary_429" /\ pc = "done")

\* the primary failed and Metals-API was called and has ended
C4_Witness ==
    /\ RunEnded /\ AllowedRefresh /\ run.key # ""
    /\ Len(run.results) >= 2 /\ run.results[1].kind = "failed"
    /\ run.calls[2] = "metals"

\* C5: when the primary gold source fails, Metals-API returns a price and
\* the FX fetch returns a rate, the refresh ends in success and the cache
\* holds the price and source name returned by Metals-API, the FX rate and
\* source, and the instant of the write.
C5_CacheFromFallbackOnly ==
    (RunEnded /\ AllowedRefresh /\ run.calls = <<"yahoo", "metals", "fx">>
       /\ Len(run.results) = 3
       /\ run.results[1].kind = "failed"
       /\ run.results[2].kind = "ok"
       /\ run.results[3].kind = "ok")
    => /\ pc = "rerun"
       /\ run.outcome = "fallback_cached"
       /\ run.results[2].src = "Metals-API"
       /\ cache = [xau_usd |-> run.results[2].val,
                   usd_inr |-> run.results[3].val,
                   fetched_at |-> now,
                   source_xau |-> run.results[2].src,
                   source_fx |-> run.results[3].src]

\* the fallback path has written the cache after a failed primary
C5_Witness ==
    /\ pc = "rerun" /\ run.outcome = "fallback_cached"
    /\ run.calls = <<"yahoo", "metals", "fx">>
    /\ run.results[1].kind = "failed"
    /\ cache.source_xau = "Metals-API" /\ cache.xau_usd = Some(<<1900, 1>>)

\* C6: once the primary gold source has returned a price, Metals-API is not
\* called in that refresh, whatever the FX fetch does.
C6_NoFallbackAfterPrimaryPrice ==
    (Len(run.results) >= 1 /\ run.results[1].kind = "ok")
    => "metals" \notin Range(run.calls)

\* C7: a script run in which Refresh was not pressed issues no HTTP request
\* and calls no adapter, whatever the state of the cache.
C7_NoRequestWithoutRefresh ==
    ~run.refresh => (run.reqs = 0 /\ run.calls = <<>> /\ h = NoFrame)

\* a run without Refresh has ended while the cache holds an expired entry
C7_Witness ==
    /\ pc = "done" /\ ~run.refresh /\ run.outcome = "no_refresh"
    /\ DOMAIN cache # {} /\ run.cached = None

\* C8: a pressed Refresh within the cooldown window is rejected with no
\* request and last_user_fetch unchanged; any other pressed Refresh records
\* last_user_fetch = now before its first request, so it is at least the
\* cooldown after the previous one; nothing else changes last_user_fetch,
\* and requests are issued only by a run that recorded it.
C8_CooldownGate ==
    [][ /\ (pc = "idle" /\ pc' # "idle" /\ run'.refresh) =>
              IF last_user_fetch # None /\ now - last_user_fetch[1] < run'.cooldown
              THEN /\ pc' = "done"
                   /\ run'.reqs = 0 /\ run'.calls = <<>> /\ h' = NoFrame
                   /\ last_user_fetch' = last_user_fetch
              ELSE /\ pc' = "fetch_xau"
                   /\ last_user_fetch' = Some(now)
                   /\ run'.reqs = 0
        /\ ~(pc = "idle" /\ pc' # "idle" /\ run'.refresh) =>
              last_user_fetch' = last_user_fetch
        /\ run'.reqs > run.reqs =>
              (run.refresh /\ last_user_fetch = Some(run.at))
      ]_vars

\* a Refresh pressed after an earlier allowed refresh has been rejected
C8_Witness ==
    /\ pc = "done" /\ run.refresh /\ ~run.allowed /\ run.outcome = "cooldown"
    /\ last_user_fetch # None /\ run.at - last_user_fetch[1] < run.cooldown

\* C9 as stated: cache_get returns no entry once now >= fetched_at + TTL.
C9_AbsentFromExpiryInstant ==
    (InRun /\ run.cached # None) =>
        run.at < run.cached[1].fetched_at + run.ttl

\* C9 amended: cache_get returns no entry once now > fetched_at + TTL (the
\* TTL setting of the run that reads); at the exact instant age = TTL the
\* entry is still returned.
C9_AbsentAfterExpiryInstant ==
    InRun =>
        /\ run.cached # None => run.at <= run.cached[1].fetched_at + run.ttl
        /\ (pc # "rerun" /\ DOMAIN cache # {} /\ run.at = cache.fetched_at + run.ttl)
              => run.cached = Some(cache)

\* an entry is served at the exact instant age = TTL
C9_Witness ==
    /\ InRun /\ run.cached # None
    /\ run.at = run.cached[1].fetched_at + run.ttl

\* C10: cache_get returns absent before any cache_set; after one it returns
\* exactly the four values of the latest cache_set while age <= TTL, and
\* absent once age > TTL.
C10_GetReturnsLatestSet ==
    (InRun /\ pc # "rerun") =>
        IF lastSet = None THEN run.cached = None
        ELSE IF run.at - lastSet[1].at <= run.ttl
        THEN /\ run.cached # None
             /\ run.cached[1].xau_usd = lastSet[1].xau_usd
             /\ run.cached[1].usd_inr = lastSet[1].usd_inr
             /\ run.cached[1].source_xau = lastSet[1].source_xau
             /\ run.cached[1].source_fx = lastSet[1].source_fx
        ELSE run.cached = None

\* with TTL = 10 a read 11 seconds after the cache_set returns absent
C10_Witness ==
    /\ InRun /\ lastSet # None /\ run.ttl = MinCacheTTL
    /\ run.at - lastSet[1].at = MinCacheTTL + 1
    /\ run.cached = None
\* C11 as stated: the expiry of an entry is fixed when it is written, as
\* write time plus the TTL in force at the write; a later change of the
\* setting does not change whether the entry is served.
C11_ExpiryFixedAtWrite ==
    (InRun /\ pc # "rerun" /\ lastSet # None) =>
        (run.cached # None <=> run.at - lastSet[1].at <= lastSet[1].ttl)

\* C11 amended: the entry stores only the write instant fetched_at; every
\* cache_get compares the age with the TTL setting in force at that read,
\* so the entry is served iff age <= the reading run's TTL, whatever the
\* TTL was at the write.
C11_ExpiryByReadSetting ==
    (InRun /\ pc # "rerun" /\ lastSet # None) =>
        /\ DOMAIN cache = {"xau_usd", "usd_inr", "fetched_at", "source_xau", "source_fx"}
        /\ cache.fetched_at = lastSet[1].at
        /\ run.cached # None <=> run.at - cache.fetched_at <= run.ttl

\* an entry written under TTL = 20 is absent at age 11 once the setting is 10
C11_Witness ==
    /\ InRun /\ pc = "done" /\ lastSet # None
    /\ lastSet[1].ttl = 2 * MinCacheTTL /\ run.ttl = MinCacheTTL
    /\ run.at - lastSet[1].at = MinCacheTTL + 1
    /\ run.cached = None
\* C12: when Metals-API returns a rate of zero the fallback ends as a
\* failure of that source: nothing is cached and the outcome reported is a
\* failure, not a rate limit.
C12_ZeroRateIsFailure ==
    (RunEnded /\ Len(run.results) >= 1
       /\ run.results[Len(run.results)].kind = "novalue")
    => /\ run.outcome = "fallback_failed"
       /\ pc = "done"

\* the messages an allowed refresh can end with: the cache was updated or an
\* error was reported
HandledOutcomes ==
    {"primary_429", "primary_fx_429", "primary_cached", "primary_failed_no_key",
     "fallback_failed", "fallback_429", "fallback_fx_failed", "fallback_cached"}

\* C13: every allowed refresh ends in a handled outcome, the cache being
\* written exactly in the two success outcomes, and the display of a cached
\* entry never raises on a missing value.
C13_EveryOutcomeHandled ==
    /\ (RunEnded /\ AllowedRefresh) =>
          /\ run.outcome \in HandledOutcomes
          /\ pc = "rerun" <=> run.outcome \in {"primary_cached", "fallback_cached"}
          /\ run.outcome \in {"primary_cached", "fallback_cached"} =>
                (lastSet # None /\ lastSet[1].at = now)
    /\ ~run.fault
    /\ run.outcome # "display_fault"
    /\ run.cached # None =>
          (run.cached[1].xau_usd # None /\ run.cached[1].usd_inr # None)

\* the primary failed, Metals-API gave a price and the FX fetch then failed
C13_Witness ==
    /\ pc = "done" /\ AllowedRefresh /\ run.outcome = "fallback_failed"
    /\ Len(run.results) = 3
    /\ run.results[1].kind = "failed" /\ run.results[2].kind = "ok"
    /\ run.results[3].kind = "failed"
\* the purity k of the i-th row
Karat(i) == CASE i = 1 -> 24 [] i = 2 -> 22 [] OTHER -> 18

\* the rows shown so far follow the formulas: base = xau_usd / 31.1034768 *
\* 10 * usd_inr * k/24 (as one fraction), after import = base * (1 + duty/100),
\* final = after import * (1 + gst/100), and the 22K and 18K rows are 22/24
\* and 18/24 of the 24K row
RowsFollowFormulas ==
    LET xau == cache.xau_usd[1]
        fx == cache.usd_inr[1]
        duty == RatOf(run.import_duty_pct)
        gst == RatOf(run.gst_pct)
        hundred == RatOf(<<100, 1>>)
    IN  \A i \in DOMAIN run.rows :
          LET row == run.rows[i]
              top == run.rows[1]
              k == RatOf(<<Karat(i), 1>>)
          IN  /\ RatEq(row.base,
                       <<BigMul(BigMul(BigOf(xau[1] * 10), BigOf(fx[1] * Karat(i))),
                                BigOf(10000000)),
                         BigMul(BigMul(BigOf(xau[2] * 24), BigOf(fx[2])), BigOf(311034768))>>)
              /\ RatEq(RatMul(row.after_imp, hundred), RatMul(row.base, RatAdd(hundred, duty)))
              /\ RatEq(RatMul(row.after_gst, hundred),
                       RatMul(row.after_imp, RatAdd(hundred, gst)))
              /\ RatEq(RatMul(row.base, RatOf(<<24, 1>>)), RatMul(top.base, k))
              /\ RatEq(RatMul(row.after_imp, RatOf(<<24, 1>>)), RatMul(top.after_imp, k))
              /\ RatEq(RatMul(row.after_gst, RatOf(<<24, 1>>)), RatMul(top.after_gst, k))

\* the scenario xau_usd = 2000, usd_inr = 83, duty 10 %, GST 3 %
IsScenario ==
    /\ cache.xau_usd = Some(<<2000, 1>>) /\ cache.usd_inr = Some(<<83, 1>>)
    /\ run.import_duty_pct = <<10, 1>> /\ run.gst_pct = <<3, 1>>

\* in the scenario the 24K final is within 0.01 of cents / 100
ScenarioFinalAbout(cents) ==
    (IsScenario /\ Len(run.rows) >= 1) =>
        /\ RatLeq(RatOf(<<cents - 1, 100>>), run.rows[1].after_gst)
        /\ RatLeq(run.rows[1].after_gst, RatOf(<<cents + 1, 100>>))

\* C14 as stated: the rows follow the formulas (duty first, GST on the
\* duty-inclusive amount, 22K and 18K as 22/24 and 18/24 of 24K), and
\* xau_usd = 2000, usd_inr = 83, duty 10 %, GST 3 % gives a 24K final of
\* about 60485.07.
C14_RatesAndScenario ==
    RowsFollowFormulas /\ ScenarioFinalAbout(6048507)

\* C14 amended: the same formulas, the scenario giving a 24K final of about
\* 60468.48.
C14_RatesAndScenarioValue ==
    RowsFollowFormulas /\ ScenarioFinalAbout(6046848)

\* the three rows of the scenario have been computed
C14_Witness ==
    pc = "shown" /\ IsScenario /\ Len(run.rows) = 3

\* C15: with base backoff 1, the k-th failed attempt that is not a 429
\* (k < attempts) is followed by a sleep of exactly 2^(k-1), the last failed
\* attempt is followed by no sleep, and a call whose n attempts all failed
\* has slept 2^(n-1) - 1 in total.
C15_BackoffSchedule ==
    [][/\ (h.st = "handle" /\ h.resp.kind \in {"transport", "httperr"}
             /\ h.attempt < h.attempts)
          => h'.st = "sleep"
       /\ h.st = "sleep" => (now' - now = 2 ^ (h.attempt - 1) /\ h'.st = "request")
       /\ (h.st = "handle" /\ h.attempt = h.attempts) => h'.st # "sleep"
       /\ (h'.st = "raised" /\ h'.fails = h'.attempts)
          => h'.slept = 2 ^ (h'.attempts - 1) - 1]_vars

\* C20: http_get returns the rate-limited outcome only for a response of
\* status 429; any other HTTP error is retried or raised.
C20_RateLimitedOnlyOn429 ==
    /\ (h.st = "returned" /\ h.ret.kind = "ratelimited") => h.resp.kind = "r429"
    /\ (HttpEnded /\ h.resp.kind = "httperr") => (h.st = "raised" /\ h.attempt = h.attempts)
\* C17: the cache is written only by an allowed refresh in which a gold
\* price and an FX rate were both obtained; every other step of every run
\* (no Refresh, rejected by the cooldown, any source failed or rate-limited
\* with no later successful fallback) leaves the cache unchanged.
C17_CacheWrittenOnlyOnSuccess ==
    [][/\ (cache' # cache \/ lastSet' # lastSet) =>
             /\ run.refresh /\ run.allowed /\ pc' = "rerun"
             /\ LET res == run'.results
                    n == Len(res)
                IN  /\ n >= 2
                    /\ res[n - 1].kind = "ok" /\ res[n].kind = "ok"
                    /\ run'.calls[n - 1] \in {"yahoo", "metals"} /\ run'.calls[n] = "fx"
                    /\ cache'.xau_usd = res[n - 1].val /\ cache'.usd_inr = res[n].val
             /\ run'.outcome \in {"primary_cached", "fallback_cached"}
       /\ (pc' = "done" /\ pc # "rerun") => cache' = cache
       /\ (~run'.refresh \/ ~run'.allowed) => cache' = cache]_vars

\* a refresh whose FX fetch was rate-limited has left an earlier entry in place
C17_Witness ==
    /\ pc = "done" /\ AllowedRefresh /\ run.outcome = "primary_fx_429"
    /\ lastSet # None /\ lastSet[1].at < run.at
    /\ cache = CacheSet(lastSet[1].xau_usd, lastSet[1].usd_inr, lastSet[1].source_xau,
                        lastSet[1].source_fx, lastSet[1].at)

\* C18: the session cache is empty, or it holds a gold price and an FX rate
\* that are not None, both source names and fetched_at, all five written
\* together by one cache_set.
C18_CacheWholeOrEmpty ==
    \/ cache = EmptyCache /\ lastSet = None
    \/ /\ DOMAIN cache = {"xau_usd", "usd_inr", "fetched_at", "source_xau", "source_fx"}
       /\ cache.xau_usd # None /\ cache.usd_inr # None
       /\ cache.source_xau \in {"Yahoo Finance", "Metals-API"}
       /\ cache.source_fx = "exchangerate.host"
       /\ cache.source_xau = "Yahoo Finance" <=> cache.xau_usd[1] \in YahooPrices
       /\ cache.usd_inr[1] \in FxRates
       /\ cache.fetched_at <= now
       /\ lastSet # None
       /\ cache = CacheSet(lastSet[1].xau_usd, lastSet[1].usd_inr, lastSet[1].source_xau,
                           lastSet[1].source_fx, lastSet[1].at)

\* an entry of the fallback has replaced an entry of the primary
C18_Witness ==
    /\ pc = "idle" /\ cache # EmptyCache
    /\ cache.source_xau = "Metals-API" /\ cache.fetched_at > 0

\* the adapter calls of a refresh, in the only orders the script allows
CallOrders ==
    {<<"yahoo">>, <<"yahoo", "fx">>, <<"yahoo", "metals">>, <<"yahoo", "metals", "fx">>,
     <<"yahoo", "fx", "metals">>, <<"yahoo", "fx", "metals", "fx">>}

FetchPcs == {"fetch_xau", "fetch_fx", "fallback_xau", "fallback_fx"}

\* how far a refresh has got: the adapter call, the attempt, the step of the attempt
RunRank ==
    Len(run.calls) * 100 + h.attempt * 10
      + (CASE h.st = "request" -> 0 [] h.st = "handle" -> 1 [] h.st = "sleep" -> 2
           [] OTHER -> 3)

\* C19: an allowed refresh ends after at most 8 requests (at most 2 per
\* adapter call, the calls being Yahoo, FX, Metals-API, FX) and at most 4
\* backoff sleeps, and without a key after at most 4 requests, none to
\* Metals-API: every step of the refresh advances a bounded rank, and a
\* step is possible until the refresh has ended.
C19_RefreshBounded ==
    /\ [](pc \in FetchPcs \/ (RunEnded /\ AllowedRefresh) =>
            /\ run.reqs <= 4 * AdapterAttempts /\ run.sleeps <= 4
            /\ h.reqs <= AdapterAttempts
            /\ run.calls \in CallOrders
            /\ run.key = "" => (run.reqs <= 2 * AdapterAttempts
                                /\ "metals" \notin Range(run.calls)))
    /\ [](pc \in FetchPcs =>
            /\ RunRank <= 4 * 100 + AdapterAttempts * 10 + 3
            /\ ENABLED (HttpNext \/ PrimaryXauDone \/ PrimaryFxDone
                          \/ FallbackXauDone \/ FallbackFxDone))
    /\ [][(pc \in FetchPcs) =>
              ((pc' \in FetchPcs /\ RunRank' > RunRank) \/ RunEnded')]_vars

\* the longest refresh: 8 requests and 4 sleeps
C19_Witness ==
    /\ pc = "rerun" /\ AllowedRefresh
    /\ run.reqs = 4 * AdapterAttempts /\ run.sleeps = 4
    /\ run.calls = <<"yahoo", "fx", "metals", "fx">>
\* C16: when an adapter gets a 2xx response whose body has not the expected
\* shape, the failure is surfaced without another request for that response,
\* and that adapter is not invoked again in the same refresh.
C16_ParseFailureNotRetried ==
    [][/\ (pc \in FetchPcs /\ h.st = "returned" /\ h.ret.kind = "resp"
             /\ h.ret.body.shape # "good")
          => /\ run'.reqs = run.reqs
             /\ run'.results[Len(run'.results)].parse
             /\ h'.src # h.src
       /\ \A i \in DOMAIN run.results :
             (run.results[i].parse /\ Len(run'.calls) > Len(run.calls))
             => run'.calls[Len(run'.calls)] # run.calls[i]]_vars

====
